---- MODULE Spec2Model ----
(***************************************************************************)
(* Model of spotify-endsong-artwork (main.go).  The program reads the      *)
(* exported streaming-history files, stably sorts the records by           *)
(* timestamp, attaches an artwork URL to every record whose                *)
(* spotify_track_uri names a track (one GetTrack call per distinct track   *)
(* id), and writes sorted_streams.json.                                    *)
(*                                                                         *)
(* The repository holds two revisions of main.go; they differ only in      *)
(* readEndsongFiles (numbered endsong_<n>.json files against a directory   *)
(* scan).  The variable "variant" selects the revision for a run.          *)
(*                                                                         *)
(* A Go string is a sequence of one-character strings, so strings.Split    *)
(* is computed, not assumed.  Input records carry the fields the export    *)
(* format defines; artwork_url is not among them, so ArtworkURL is nil     *)
(* after json.Unmarshal.                                                   *)
(***************************************************************************)
EXTENDS Integers, Sequences, FiniteSets, TLC

\* ---------------------------------------------------------------- bounds
MaxFiles == 2   \* input files (numbered revision) / directory entries (scan)
MaxRecs  == 2   \* records over all input files
MaxTs    == 2   \* distinct timestamps 1..MaxTs

\* ------------------------------------------------------- strings and URIs
Colon       == <<":">>
Str_spotify == <<"s","p","o","t","i","f","y">>
Str_track   == <<"t","r","a","c","k">>
Str_episode == <<"e","p","i","s","o","d","e">>
Str_other   == <<"l","o","c","a","l">>

\* Values of the spotify_track_uri field seen by the loop.
UriPool ==
  { <<>>,
    Str_spotify,
    Str_spotify \o Colon \o Str_track,
    Str_spotify \o Colon \o Str_track \o Colon \o <<"A">>,
    Str_spotify \o Colon \o Str_track \o Colon \o <<"B">>,
    Str_spotify \o Colon \o Str_episode \o Colon \o <<"B">>,
    Str_other \o Colon \o Str_track \o Colon \o <<"A">> }

\* Image URLs the catalog may return as Album.Images[0].URL.
Urls == {"u1", "u2"}

Null == "null"

\* Process exit codes: os.Exit(1) from log.Fatal, 2 from a runtime panic.
NotExited == -1
ExitOk    == 0
ExitFatal == 1
ExitPanic == 2

\* Diagnostics (log.Fatal messages and runtime panics).
MsgNoFile   == "No endsong_0.json file found"
MsgOpen     == "Error when opening file: "
MsgReadDir  == "Error while reading directory"
MsgParse    == "Error during Unmarshal(): "
MsgToken    == "couldn't get token"
MsgGetTrack == "Error when getting Spotify track: "
MsgEncode   == "Error when encoding file: "
MsgIndex1   == "index out of range [1] with length 1"
MsgIndex0   == "index out of range [0] with length 0"

\* ------------------------------------------------------------------ state
VARIABLES
  variant,      \* "numbered" (main.go:81-120) or "scan" (main.go:279-313)
  pc,           \* position of the single thread of control
  fileIndex,    \* local of readEndsongFiles (0 outside it); scan: entries ranged over
  inputFound,   \* some input file was found (exists / matches the name filter)
  allStreams,   \* []Stream
  i,            \* loop index of addStreamArtworks (1-based)
  artworkByID,  \* map[string]string
  barMax,       \* progressbar.Default(max)
  bar,          \* number of bar.Add(1) calls
  tokenAsked,   \* config.Token was called
  getTrackLog,  \* sequence of [id, res] : every client.GetTrack call
  sortedFile,   \* "unset", "nil" (os.Create failed) or "open"
  artifact,     \* sorted_streams.json: "untouched", "truncated", "written"
  stdout,       \* set of status lines printed (kinds)
  artworksTotal,\* value printed by "%d artworks total."
  exitCode,
  diag          \* fatal diagnostic, "" when none

vars == << variant, pc, fileIndex, inputFound, allStreams, i, artworkByID,
           barMax, bar, tokenAsked, getTrackLog, sortedFile, artifact,
           stdout, artworksTotal, exitCode, diag >>

\* --------------------------------------------------------------- helpers
Stream(ts, uri, seq) == [Ts |-> ts, SpotifyTrackURI |-> uri, Seq |-> seq, ArtworkURL |-> Null]

RECURSIVE SplitAcc(_, _, _)
SplitAcc(s, cur, acc) ==
  IF s = <<>> THEN Append(acc, cur)
  ELSE IF Head(s) = ":" THEN SplitAcc(Tail(s), <<>>, Append(acc, cur))
  ELSE SplitAcc(Tail(s), Append(cur, Head(s)), acc)

\* strings.Split(s, ":")
Split(s) == SplitAcc(s, <<>>, <<>>)

\* The skip condition of main.go:142, evaluated left to right with
\* short-circuit "||": splitTrackURI[1] is read only when
\* splitTrackURI[0] == "spotify".
IndexPanics(parts) == parts[1] = Str_spotify /\ Len(parts) < 2

SkipCond(parts) ==
  \/ parts[1] # Str_spotify
  \/ /\ Len(parts) >= 2
     /\ (parts[2] # Str_track \/ Len(parts) < 3)

TrackID(parts) == parts[3]

\* Mutant: the comparison admits equal timestamps.
Less_orEqual(a, b) == a.Ts <= b.Ts

\* allStreams[i].Ts.Before(allStreams[j].Ts)
Less(a, b) == a.Ts < b.Ts

\* sort.SliceStable: for fewer than 20 elements this is insertion sort,
\* moving element j down while less(j, j-1).
RECURSIVE SinkDown(_, _)
SinkDown(s, j) ==
  IF j > 1 /\ Less(s[j], s[j-1])
  THEN SinkDown([s EXCEPT ![j] = s[j-1], ![j-1] = s[j]], j - 1)
  ELSE s

RECURSIVE InsertionSort(_, _)
InsertionSort(s, k) ==
  IF k > Len(s) THEN s ELSE InsertionSort(SinkDown(s, k), k + 1)

SliceStable(s) == InsertionSort(s, 2)

\* File contents json.Unmarshal can produce with room for n more records.
RECURSIVE Contents(_)
Contents(n) ==
  IF n = 0 THEN { <<>> }
  ELSE LET shorter == Contents(n - 1)
       IN shorter \cup
          { Append(c, [Ts |-> t, SpotifyTrackURI |-> u]) :
              c \in { x \in shorter : Len(x) = n - 1 }, t \in 1..MaxTs, u \in UriPool }

\* append(allStreams, fileStreams...)
AppendAll(streams, content) ==
  streams \o [k \in 1..Len(content) |->
                Stream(content[k].Ts, content[k].SpotifyTrackURI, Len(streams) + k)]

\* make(map[string]string)
EmptyMap == [k \in {} |-> Null]

\* Mutant: the map is rebuilt on every insert.
MapPut_reset(m, k, v) == [x \in {k} |-> v]

\* artworkByID[trackID] = trackArtwork
MapPut(m, k, v) == [x \in DOMAIN m \cup {k} |-> IF x = k THEN v ELSE m[x]]

\* Directory entry names, reduced to what the filter of main.go:289-293 reads.
Names == [ prefix : {"endsong_", "Streaming_History_Audio_", "other"},
           suffix : {".json", ".txt"} ]

HasJsonSuffix(name) == name.suffix = ".json"

HasInputPrefix(name) == name.prefix = "endsong_" \/ name.prefix = "Streaming_History_Audio_"

Room == MaxRecs - Len(allStreams)

\* Mutant: the fatal helper exits with status 0.
Fatal_exitZero(msg) ==
  /\ pc' = "aborted"
  /\ exitCode' = ExitOk
  /\ diag' = msg

Fatal(msg) ==
  /\ pc' = "aborted"
  /\ exitCode' = ExitFatal
  /\ diag' = msg

Panic(msg) ==
  /\ pc' = "panicked"
  /\ exitCode' = ExitPanic
  /\ diag' = msg

\* ------------------------------------------------------------------- init
Init ==
  /\ variant \in {"numbered", "scan"}
  /\ pc = "start"
  /\ fileIndex = 0
  /\ inputFound = FALSE
  /\ allStreams = <<>>
  /\ i = 0
  /\ artworkByID = EmptyMap
  /\ barMax = 0
  /\ bar = 0
  /\ tokenAsked = FALSE
  /\ getTrackLog = <<>>
  /\ sortedFile = "unset"
  /\ artifact = "untouched"
  /\ stdout = {}
  /\ artworksTotal = -1
  /\ exitCode = NotExited
  /\ diag = ""

\* ------------------------------------------------- readEndsongFiles (numbered)
loadVars == << i, artworkByID, barMax, bar, tokenAsked, getTrackLog,
               sortedFile, artifact, artworksTotal >>

\* main.go:181, 84 : main calls readEndsongFiles, fileIndex := 0
NumberedBegin ==
  /\ pc = "start" /\ variant = "numbered"
  /\ pc' = "loading"
  /\ fileIndex' = 0
  /\ UNCHANGED << variant, inputFound, allStreams, stdout, exitCode, diag >>
  /\ UNCHANGED loadVars

\* main.go:89-105 : the file exists, is read and parsed
NumberedLoad ==
  /\ pc = "loading" /\ variant = "numbered"
  /\ fileIndex < MaxFiles
  /\ \E content \in Contents(Room) :
       allStreams' = AppendAll(allStreams, content)
  /\ inputFound' = TRUE
  /\ fileIndex' = fileIndex + 1
  /\ stdout' = stdout \cup {"file done"}
  /\ UNCHANGED << variant, pc, exitCode, diag >>
  /\ UNCHANGED loadVars

\* main.go:92-95 : ioutil.ReadFile fails
NumberedReadFail ==
  /\ pc = "loading" /\ variant = "numbered"
  /\ fileIndex < MaxFiles
  /\ inputFound' = TRUE
  /\ Fatal(MsgOpen)
  /\ UNCHANGED << variant, fileIndex, allStreams, stdout >>
  /\ UNCHANGED loadVars

\* main.go:97-100 : json.Unmarshal fails
NumberedParseFail ==
  /\ pc = "loading" /\ variant = "numbered"
  /\ fileIndex < MaxFiles
  /\ inputFound' = TRUE
  /\ Fatal(MsgParse)
  /\ UNCHANGED << variant, fileIndex, allStreams, stdout >>
  /\ UNCHANGED loadVars

\* main.go:106-111 : os.Stat reports that the file does not exist
NumberedNotExist ==
  /\ pc = "loading" /\ variant = "numbered"
  /\ IF fileIndex = 0
     THEN Fatal(MsgNoFile) /\ UNCHANGED fileIndex
     ELSE pc' = "loaded" /\ fileIndex' = 0 /\ UNCHANGED << exitCode, diag >>
  /\ UNCHANGED << variant, inputFound, allStreams, stdout >>
  /\ UNCHANGED loadVars

\* main.go:112-116 : os.Stat fails with another error
NumberedStatErr ==
  /\ pc = "loading" /\ variant = "numbered"
  /\ Fatal(MsgOpen)
  /\ UNCHANGED << variant, fileIndex, inputFound, allStreams, stdout >>
  /\ UNCHANGED loadVars

\* ----------------------------------------------------- readEndsongFiles (scan)
\* main.go:282 : ioutil.ReadDir(".") succeeds
ScanBegin ==
  /\ pc = "start" /\ variant = "scan"
  /\ pc' = "loading"
  /\ fileIndex' = 0
  /\ UNCHANGED << variant, inputFound, allStreams, stdout, exitCode, diag >>
  /\ UNCHANGED loadVars

\* main.go:283-285 : ioutil.ReadDir(".") fails
ScanReadDirFail ==
  /\ pc = "start" /\ variant = "scan"
  /\ Fatal(MsgReadDir)
  /\ UNCHANGED << variant, fileIndex, inputFound, allStreams, stdout >>
  /\ UNCHANGED loadVars

\* main.go:289-293 : the entry is not an input file
ScanSkip ==
  /\ pc = "loading" /\ variant = "scan"
  /\ fileIndex < MaxFiles
  /\ \E name \in Names : ~(HasJsonSuffix(name) /\ HasInputPrefix(name))
  /\ fileIndex' = fileIndex + 1
  /\ UNCHANGED << variant, pc, inputFound, allStreams, stdout, exitCode, diag >>
  /\ UNCHANGED loadVars

\* main.go:293-308 : the entry is an input file, read and parsed
ScanLoad ==
  /\ pc = "loading" /\ variant = "scan"
  /\ fileIndex < MaxFiles
  /\ \E name \in Names : HasJsonSuffix(name) /\ HasInputPrefix(name)
  /\ \E content \in Contents(Room) :
       allStreams' = AppendAll(allStreams, content)
  /\ inputFound' = TRUE
  /\ fileIndex' = fileIndex + 1
  /\ stdout' = stdout \cup {"file done"}
  /\ UNCHANGED << variant, pc, exitCode, diag >>
  /\ UNCHANGED loadVars

\* main.go:296-299 : ioutil.ReadFile fails
ScanReadFail ==
  /\ pc = "loading" /\ variant = "scan"
  /\ fileIndex < MaxFiles
  /\ \E name \in Names : HasJsonSuffix(name) /\ HasInputPrefix(name)
  /\ inputFound' = TRUE
  /\ Fatal(MsgOpen)
  /\ UNCHANGED << variant, fileIndex, allStreams, stdout >>
  /\ UNCHANGED loadVars

\* main.go:301-304 : json.Unmarshal fails
ScanParseFail ==
  /\ pc = "loading" /\ variant = "scan"
  /\ fileIndex < MaxFiles
  /\ \E name \in Names : HasJsonSuffix(name) /\ HasInputPrefix(name)
  /\ inputFound' = TRUE
  /\ Fatal(MsgParse)
  /\ UNCHANGED << variant, fileIndex, allStreams, stdout >>
  /\ UNCHANGED loadVars

\* main.go:287, 312 : the range over the directory entries ends
ScanEnd ==
  /\ pc = "loading" /\ variant = "scan"
  /\ pc' = "loaded"
  /\ fileIndex' = 0
  /\ UNCHANGED << variant, inputFound, allStreams, stdout, exitCode, diag >>
  /\ UNCHANGED loadVars

\* ------------------------------------------------------------------- main
\* Mutant: the early return on an empty collection is missing.
MainEmpty_noReturn ==
  /\ pc = "loaded"
  /\ Len(allStreams) = 0
  /\ stdout' = stdout \cup {"streams total"}
  /\ pc' = "sorted"
  /\ UNCHANGED << variant, fileIndex, inputFound, allStreams, exitCode, diag >>
  /\ UNCHANGED loadVars

\* main.go:182-186 : no record was loaded, main returns
MainEmpty ==
  /\ pc = "loaded"
  /\ Len(allStreams) = 0
  /\ stdout' = stdout \cup {"streams total"}
  /\ pc' = "done"
  /\ exitCode' = ExitOk
  /\ UNCHANGED << variant, fileIndex, inputFound, allStreams, diag >>
  /\ UNCHANGED loadVars

\* main.go:182-191 : sort.SliceStable by Ts
MainSort ==
  /\ pc = "loaded"
  /\ Len(allStreams) # 0
  /\ stdout' = stdout \cup {"streams total"}
  /\ allStreams' = SliceStable(allStreams)
  /\ pc' = "sorted"
  /\ UNCHANGED << variant, fileIndex, inputFound, exitCode, diag >>
  /\ UNCHANGED loadVars

\* ------------------------------------------------------ addStreamArtworks
\* Mutant: the cache lookup never hits.
CacheHit_never(m, id) == FALSE

\* trackArtwork, ok := artworkByID[trackID]
CacheHit(m, id) == id \in DOMAIN m

\* Mutant: trackArtwork is declared outside the loop, every slot set so far
\* points at the same variable.
SetArtwork_shared(streams, k, url) ==
  [j \in DOMAIN streams |->
     IF j = k \/ streams[j].ArtworkURL # Null
     THEN [streams[j] EXCEPT !.ArtworkURL = url]
     ELSE streams[j]]

\* allStreams[i].ArtworkURL = &trackArtwork
SetArtwork(streams, k, url) == [streams EXCEPT ![k].ArtworkURL = url]

Parts == Split(allStreams[i].SpotifyTrackURI)

InLoop == pc = "enriching" /\ i <= Len(allStreams)

Enrichable == InLoop /\ ~IndexPanics(Parts) /\ ~SkipCond(Parts)

enrichFixed == << variant, fileIndex, inputFound, sortedFile, artifact, artworksTotal >>

\* main.go:130-139 : token obtained, client, bar and cache created
TokenOk ==
  /\ pc = "sorted"
  /\ tokenAsked' = TRUE
  /\ barMax' = Len(allStreams)
  /\ bar' = 0
  /\ artworkByID' = EmptyMap
  /\ i' = 1
  /\ pc' = "enriching"
  /\ UNCHANGED << allStreams, getTrackLog, stdout, exitCode, diag >>
  /\ UNCHANGED enrichFixed

\* main.go:130-133 : config.Token fails
TokenFail ==
  /\ pc = "sorted"
  /\ tokenAsked' = TRUE
  /\ Fatal(MsgToken)
  /\ UNCHANGED << allStreams, i, artworkByID, barMax, bar, getTrackLog, stdout >>
  /\ UNCHANGED enrichFixed

\* main.go:142 : splitTrackURI[1] read on a one-element slice
ExtractPanic ==
  /\ InLoop
  /\ IndexPanics(Parts)
  /\ Panic(MsgIndex1)
  /\ UNCHANGED << allStreams, i, artworkByID, barMax, bar, tokenAsked, getTrackLog, stdout >>
  /\ UNCHANGED enrichFixed

\* main.go:142-145 : the record is not a track, continue
SkipRecord ==
  /\ InLoop
  /\ ~IndexPanics(Parts)
  /\ SkipCond(Parts)
  /\ i' = i + 1
  /\ UNCHANGED << allStreams, artworkByID, barMax, bar, tokenAsked, getTrackLog,
                  stdout, pc, exitCode, diag >>
  /\ UNCHANGED enrichFixed

\* main.go:147-149, 158-160 : the id is in the cache
EnrichHit ==
  /\ Enrichable
  /\ CacheHit(artworkByID, TrackID(Parts))
  /\ allStreams' = SetArtwork(allStreams, i, artworkByID[TrackID(Parts)])
  /\ bar' = bar + 1
  /\ i' = i + 1
  /\ UNCHANGED << artworkByID, barMax, tokenAsked, getTrackLog, stdout, pc, exitCode, diag >>
  /\ UNCHANGED enrichFixed

\* main.go:150-160 : cache miss, GetTrack succeeds with an image
GetTrackOk ==
  /\ Enrichable
  /\ ~CacheHit(artworkByID, TrackID(Parts))
  /\ \E url \in Urls :
       /\ getTrackLog' = Append(getTrackLog, [id |-> TrackID(Parts), res |-> url])
       /\ artworkByID' = MapPut(artworkByID, TrackID(Parts), url)
       /\ allStreams' = SetArtwork(allStreams, i, url)
  /\ bar' = bar + 1
  /\ i' = i + 1
  /\ UNCHANGED << barMax, tokenAsked, stdout, pc, exitCode, diag >>
  /\ UNCHANGED enrichFixed

\* Mutant: the GetTrack error is logged and the loop goes on.
GetTrackFail_ignored ==
  /\ Enrichable
  /\ ~CacheHit(artworkByID, TrackID(Parts))
  /\ getTrackLog' = Append(getTrackLog, [id |-> TrackID(Parts), res |-> "err"])
  /\ i' = i + 1
  /\ UNCHANGED << allStreams, artworkByID, barMax, bar, tokenAsked, stdout, pc, exitCode, diag >>
  /\ UNCHANGED enrichFixed

\* main.go:151-154 : cache miss, GetTrack fails
GetTrackFail ==
  /\ Enrichable
  /\ ~CacheHit(artworkByID, TrackID(Parts))
  /\ getTrackLog' = Append(getTrackLog, [id |-> TrackID(Parts), res |-> "err"])
  /\ Fatal(MsgGetTrack)
  /\ UNCHANGED << allStreams, i, artworkByID, barMax, bar, tokenAsked, stdout >>
  /\ UNCHANGED enrichFixed

\* main.go:155 : cache miss, GetTrack succeeds with an empty Images slice
GetTrackNoImage ==
  /\ Enrichable
  /\ ~CacheHit(artworkByID, TrackID(Parts))
  /\ getTrackLog' = Append(getTrackLog, [id |-> TrackID(Parts), res |-> "noimage"])
  /\ Panic(MsgIndex0)
  /\ UNCHANGED << allStreams, i, artworkByID, barMax, bar, tokenAsked, stdout >>
  /\ UNCHANGED enrichFixed

\* main.go:140, 162-164 : the loop ends, the cache size is printed
EnrichDone ==
  /\ pc = "enriching"
  /\ i > Len(allStreams)
  /\ artworksTotal' = Cardinality(DOMAIN artworkByID)
  /\ stdout' = stdout \cup {"artworks total"}
  /\ pc' = "writing"
  /\ UNCHANGED << variant, fileIndex, inputFound, allStreams, i, artworkByID, barMax,
                  bar, tokenAsked, getTrackLog, sortedFile, artifact, exitCode, diag >>

\* -------------------------------------------------------- writeSortedFile
writeFixed == << variant, fileIndex, inputFound, allStreams, i, artworkByID, barMax,
                 bar, tokenAsked, getTrackLog, artworksTotal >>

\* main.go:168 : os.Create succeeds and truncates the file
CreateOk ==
  /\ pc = "writing"
  /\ sortedFile' = "open"
  /\ artifact' = "truncated"
  /\ pc' = "encoding"
  /\ UNCHANGED << stdout, exitCode, diag >>
  /\ UNCHANGED writeFixed

\* main.go:168 : os.Create fails, its error is discarded, sortedFile is nil
CreateFail ==
  /\ pc = "writing"
  /\ sortedFile' = "nil"
  /\ pc' = "encoding"
  /\ UNCHANGED << artifact, stdout, exitCode, diag >>
  /\ UNCHANGED writeFixed

\* Mutant: a write on a nil file is not reported.
CanWrite_any(f) == TRUE

\* (*os.File).Write on a nil file returns os.ErrInvalid
CanWrite(f) == f = "open"

\* main.go:173-177, 198 : Encode succeeds, main returns
EncodeOk ==
  /\ pc = "encoding"
  /\ CanWrite(sortedFile)
  /\ artifact' = "written"
  /\ stdout' = stdout \cup {"streams sorted"}
  /\ pc' = "done"
  /\ exitCode' = ExitOk
  /\ UNCHANGED << sortedFile, diag >>
  /\ UNCHANGED writeFixed

\* main.go:173-175 : Encode fails
EncodeFail ==
  /\ pc = "encoding"
  /\ Fatal(MsgEncode)
  /\ UNCHANGED << sortedFile, artifact, stdout >>
  /\ UNCHANGED writeFixed

\* ------------------------------------------------------------------- spec
Next ==
  \/ NumberedBegin \/ NumberedLoad \/ NumberedReadFail \/ NumberedParseFail
  \/ NumberedNotExist \/ NumberedStatErr
  \/ ScanBegin \/ ScanReadDirFail \/ ScanSkip \/ ScanLoad \/ ScanReadFail
  \/ ScanParseFail \/ ScanEnd
  \/ MainEmpty \/ MainSort
  \/ TokenOk \/ TokenFail
  \/ ExtractPanic \/ SkipRecord \/ EnrichHit
  \/ GetTrackOk \/ GetTrackFail \/ GetTrackNoImage \/ EnrichDone
  \/ CreateOk \/ CreateFail \/ EncodeOk \/ EncodeFail

Spec == Init /\ [][Next]_vars

\* ============================================================ properties
Terminal == pc \in {"done", "aborted", "panicked"}

\* An identifier of shape spotify:track:<id> (at least three segments).
IsTrackUri(uri) ==
  LET p == Split(uri)
  IN Len(p) >= 3 /\ p[1] = Str_spotify /\ p[2] = Str_track

KeyOf(uri) == Split(uri)[3]

\* Track ids among the first n records.
TrackIdsUpTo(n) ==
  { KeyOf(allStreams[k].SpotifyTrackURI) :
      k \in { x \in 1..n : x <= Len(allStreams) /\ IsTrackUri(allStreams[x].SpotifyTrackURI) } }

LogIds == { getTrackLog[k].id : k \in DOMAIN getTrackLog }

Successes == { k \in DOMAIN getTrackLog : getTrackLog[k].res \in Urls }

\* The URL the catalog returned for id.
FetchedFor(id) ==
  LET k == CHOOSE x \in DOMAIN getTrackLog : getTrackLog[x].id = id
  IN getTrackLog[k].res

\* The enrichment loop ran to its end.
EnrichmentComplete == "artworks total" \in stdout

\* The call in flight when the run died belongs to record i.
DiedInCall == Terminal /\ diag \in {MsgGetTrack, MsgIndex0}

C2_FetchFailureAborts ==
  (\E k \in DOMAIN getTrackLog : getTrackLog[k].res = "err") =>
    /\ pc = "aborted"
    /\ exitCode # ExitOk /\ exitCode # NotExited
    /\ diag = MsgGetTrack
    /\ sortedFile = "unset"
    /\ artifact = "untouched"
    /\ "streams sorted" \notin stdout

C2_Witness ==
  /\ Len(getTrackLog) = 2
  /\ getTrackLog[2].res = "err"
  /\ allStreams[1].ArtworkURL # Null
  /\ pc = "aborted"

\* ---------------------------------------------------------------------- C3
\* C3: key extraction is total and non-fatal.  For the record the loop is
\* at, the identifier yields its third segment as key exactly when it has
\* the shape spotify:track:<id>; any other identifier is skipped without
\* ending the run, so no run dies in the extraction.
C3_ExtractionTotal ==
  /\ InLoop =>
       IF IsTrackUri(allStreams[i].SpotifyTrackURI)
       THEN /\ ~IndexPanics(Parts) /\ ~SkipCond(Parts)
            /\ TrackID(Parts) = KeyOf(allStreams[i].SpotifyTrackURI)
       ELSE ~IndexPanics(Parts) /\ SkipCond(Parts)
  /\ diag # MsgIndex1

\* ---------------------------------------------------------------------- C4
IsStablePermutation(in, out) ==
  /\ Len(out) = Len(in)
  /\ { out[k].Seq : k \in DOMAIN out } = DOMAIN in
  /\ \A k \in DOMAIN out : out[k] = in[out[k].Seq]
  /\ \A k, l \in DOMAIN out :
       k < l => /\ out[k].Ts <= out[l].Ts
                /\ out[k].Ts = out[l].Ts => out[k].Seq < out[l].Seq

\* C4: the sort step of main yields a permutation of the loaded records
\* (same length, no record lost or duplicated) with non-decreasing
\* timestamps in which records of equal timestamp keep their load order.
C4_StableSort ==
  [][ (pc = "loaded" /\ pc' = "sorted") =>
        /\ \A k \in DOMAIN allStreams : allStreams[k].Seq = k
        /\ IsStablePermutation(allStreams, allStreams') ]_vars

C4_Witness ==
  /\ pc = "sorted"
  /\ Len(allStreams) = 2
  /\ allStreams[1].Ts = allStreams[2].Ts
  /\ allStreams[1].SpotifyTrackURI # allStreams[2].SpotifyTrackURI
  /\ allStreams[1].Seq = 1

\* ---------------------------------------------------------------------- C5
C5_Slots ==
  /\ \A k \in DOMAIN allStreams :
       k >= i => allStreams[k].ArtworkURL = Null
  /\ EnrichmentComplete =>
       \A k \in DOMAIN allStreams :
         LET uri == allStreams[k].SpotifyTrackURI
         IN IF IsTrackUri(uri)
            THEN /\ KeyOf(uri) \in LogIds
                 /\ allStreams[k].ArtworkURL = FetchedFor(KeyOf(uri))
                 /\ allStreams[k].ArtworkURL \in Urls
            ELSE allStreams[k].ArtworkURL = Null

C5_SetOnce ==
  \A k \in DOMAIN allStreams :
    allStreams[k].ArtworkURL # Null =>
      /\ k \in DOMAIN allStreams'
      /\ allStreams'[k].ArtworkURL = allStreams[k].ArtworkURL

\* C5: when enrichment completes every enrichable record carries the URL
\* fetched for its track id (records sharing an id carry the same URL) and
\* every other record's slot is still nil; a slot is nil until the loop
\* reaches its record and, once set, never changes.
C5_ArtworkSlots == [](C5_Slots) /\ [][C5_SetOnce]_vars

C5_Witness ==
  /\ EnrichmentComplete
  /\ Len(allStreams) = 2
  /\ \E k, l \in DOMAIN allStreams :
       /\ IsTrackUri(allStreams[k].SpotifyTrackURI)
       /\ allStreams[k].ArtworkURL \in Urls
       /\ ~IsTrackUri(allStreams[l].SpotifyTrackURI)
       /\ allStreams[l].ArtworkURL = Null

\* ---------------------------------------------------------------------- C6
NoEnrichmentNoOutput ==
  /\ ~tokenAsked
  /\ getTrackLog = <<>>
  /\ sortedFile = "unset"
  /\ artifact = "untouched"

\* No input file is present, and the discovery itself did not fail.
ZeroInputFiles == Terminal /\ ~inputFound /\ diag \notin {MsgReadDir, MsgOpen}

\* C6 as stated: with zero input files the process exits 0 and nothing is
\* requested, fetched or written.
C6_ZeroFilesExitZero ==
  ZeroInputFiles => exitCode = ExitOk /\ NoEnrichmentNoOutput

\* C6 amended: with zero input files nothing is requested, fetched or
\* written; the directory-scan revision exits 0, the numbered-file
\* revision aborts with exit code 1 ("No endsong_0.json file found").
C6_ZeroFiles ==
  ZeroInputFiles =>
    /\ NoEnrichmentNoOutput
    /\ variant = "scan" => pc = "done" /\ exitCode = ExitOk /\ diag = ""
    /\ variant = "numbered" =>
         pc = "aborted" /\ exitCode = ExitFatal /\ diag = MsgNoFile

C6_Witness ==
  /\ variant = "scan"
  /\ pc = "done"
  /\ ~inputFound
  /\ exitCode = ExitOk
  /\ artifact = "untouched"

\* ---------------------------------------------------------------------- C7
Stage(p) ==
  CASE p = "start" -> "Start"
    [] p \in {"loading", "loaded"} -> "Loading"
    [] p = "sorted" -> "Merging"
    [] p = "enriching" -> "Enriching"
    [] p \in {"writing", "encoding"} -> "Writing"
    [] p = "done" -> "Done"
    [] p \in {"aborted", "panicked"} -> "Aborted"

Chain == { <<"Start", "Loading">>, <<"Loading", "Merging">>, <<"Merging", "Enriching">>,
           <<"Enriching", "Writing">>, <<"Writing", "Done">> }

StageStep(extra) ==
  LET a == Stage(pc)
      b == Stage(pc')
  IN /\ a \notin {"Done", "Aborted"}
     /\ \/ a = b
        \/ <<a, b>> \in Chain
        \/ b = "Aborted"
        \/ extra
     /\ b = "Aborted" => exitCode' \notin {ExitOk, NotExited}
     /\ b = "Done" => exitCode' = ExitOk
     /\ b \notin {"Done", "Aborted"} => exitCode' = NotExited

\* C7 as stated: stages are entered only in the order Start, Loading,
\* Merging, Enriching, Writing, Done, none skipped, Done only after
\* Writing, any fatal error straight to Aborted with a non-zero exit.
C7_PipelineOrder == [][StageStep(FALSE)]_vars

\* C7 amended: as stated, except that a run which loaded zero records goes
\* from Loading straight to Done with exit code 0.
C7_PipelineOrderOrEmpty ==
  [][StageStep(/\ Stage(pc) = "Loading" /\ Stage(pc') = "Done"
               /\ Len(allStreams) = 0 /\ NoEnrichmentNoOutput')]_vars

C7_Witness ==
  /\ pc = "done"
  /\ artifact = "written"
  /\ tokenAsked
  /\ EnrichmentComplete

\* ---------------------------------------------------------------------- C8
\* C8: when os.Create failed or Encode failed, writeSortedFile ends in an
\* abort with a non-zero exit code; "streams sorted!" is not printed and
\* the run is never done.
C8_WriteFailureFatal ==
  /\ sortedFile = "nil" =>
       /\ "streams sorted" \notin stdout
       /\ pc \in {"encoding", "aborted"}
       /\ artifact = "untouched"
  /\ (sortedFile = "nil" /\ pc # "encoding") \/ diag = MsgEncode =>
       /\ pc = "aborted"
       /\ exitCode = ExitFatal
       /\ diag = MsgEncode
       /\ "streams sorted" \notin stdout

C8_Witness ==
  /\ sortedFile = "nil"
  /\ pc = "aborted"
  /\ diag = MsgEncode

\* ---------------------------------------------------------------------- C9
\* C9: the progress bar is advanced once per processed record, enrichable
\* or not: after k records it was advanced k times, and when the loop is
\* over the number of advances equals the total the bar was created with.
C9_BarPerRecord ==
  /\ (pc = "enriching" /\ i >= 1) => bar = i - 1
  /\ EnrichmentComplete => bar = barMax /\ barMax = Len(allStreams)

\* --------------------------------------------------------------------- C10
C10_Step ==
  /\ \A k \in DOMAIN artworkByID :
       k \in DOMAIN artworkByID' /\ artworkByID'[k] = artworkByID[k]
  /\ DOMAIN artworkByID' # DOMAIN artworkByID =>
       /\ InLoop
       /\ IsTrackUri(allStreams[i].SpotifyTrackURI)
       /\ DOMAIN artworkByID' = DOMAIN artworkByID \cup {KeyOf(allStreams[i].SpotifyTrackURI)}
       /\ \A k \in 1..(i - 1) :
            IsTrackUri(allStreams[k].SpotifyTrackURI) =>
              KeyOf(allStreams[k].SpotifyTrackURI) # KeyOf(allStreams[i].SpotifyTrackURI)
       /\ \E url \in Urls :
            /\ getTrackLog' = Append(getTrackLog,
                 [id |-> KeyOf(allStreams[i].SpotifyTrackURI), res |-> url])
            /\ artworkByID'[KeyOf(allStreams[i].SpotifyTrackURI)] = url

C10_Count ==
  /\ Cardinality(DOMAIN artworkByID) = Cardinality(Successes)
  /\ EnrichmentComplete => artworksTotal = Cardinality(Successes)

\* C10: the cache only grows: a key present is never removed nor its value
\* changed; a key is inserted only at the first record in sorted order
\* that carries it and only with the URL of a successful GetTrack; the
\* count printed at completion equals the number of successful fetches.
C10_CacheMonotone == [](C10_Count) /\ [][C10_Step]_vars

C10_Witness ==
  /\ pc = "done"
  /\ artworksTotal = 2
  /\ Cardinality(DOMAIN artworkByID) = 2

====
